---- MODULE Spec2Model ----
(***************************************************************************)
(* A model of the BGP speaker of how-to-create-bgp: the per-peer session   *)
(* machine (src/peer.rs), its event queue (src/event_queue.rs), the        *)
(* Loc-RIB -> Adj-RIB-Out pipeline and the prefix encoding                 *)
(* (src/routing.rs) and the Keepalive codec (src/packets).                 *)
(*                                                                         *)
(* Two peers with complementary configurations (peer 1 Active, peer 2      *)
(* Passive) talk to each other over one order-preserving TCP connection    *)
(* and share one Loc-RIB behind a mutex.                                   *)
(***************************************************************************)
EXTENDS Integers, Sequences, FiniteSets, TLC

VARIABLES
    state,           \* Peer.state
    event_queue,     \* Peer.event_queue (a VecDeque, index 1 is the front)
    tcp_connection,  \* Peer.tcp_connection: "None" or "Some"
    adj_rib_out,     \* Peer.adj_rib_out
    loc_rib,         \* the LocRib behind Arc<Mutex<..>>
    lock_owner,      \* the peer holding the Loc-RIB mutex, or NoPeer
    pc,              \* where each peer task is: between calls ("ready"), in
                     \* accept(), waiting for or holding the mutex, past the
                     \* install ("unlocked"), or ended ("dead")
    wire,            \* messages written towards a peer, not yet read by it
    sent,            \* history: every message a peer has written
    startCount,      \* history: number of start() calls
    lrcCount,        \* history: number of LocRibChanged notifications
    injCount,        \* history: number of messages from a foreign speaker
    nextSinceStart,  \* history: next() calls completed since the first start()
    lrcPhase,        \* history: 1 when the last completed next() dispatched
                     \* LocRibChanged in Established, 2 after one more next()
    eq,              \* a free-standing EventQueue
    enq_log,         \* history: events enqueued on eq, oldest first
    deq_log,         \* history: results of dequeue on eq, oldest first
    codec_in,        \* the value a conversion of the wire codec is applied to
    codec_out        \* the conversion last applied and what it returned

peerVars  == <<state, event_queue, tcp_connection, adj_rib_out, loc_rib,
               lock_owner, pc, wire, sent, startCount, lrcCount,
               injCount, nextSinceStart, lrcPhase>>
queueVars == <<eq, enq_log, deq_log>>
codecVars == <<codec_in, codec_out>>
vars      == <<state, event_queue, tcp_connection, adj_rib_out, loc_rib,
               lock_owner, pc, wire, sent, startCount, lrcCount,
               injCount, nextSinceStart, lrcPhase, eq, enq_log, deq_log,
               codec_in, codec_out>>

----
(* Bounds *)
MaxEnv    == 1   \* inputs beyond each peer's first start(): further start()
                 \* calls, LocRibChanged notifications, foreign messages
MaxRib    == 2   \* routes in the Loc-RIB
MaxNext   == 3   \* nextSinceStart saturates here
MaxOps    == 4   \* enqueue calls on the free-standing queue

----
(* Configuration *)
Peers  == {1, 2}
NoPeer == 0

LocalAs1 == 64512
LocalAs2 == 64513

Config ==
    [p \in Peers |->
        IF p = 1
        THEN [local_as |-> LocalAs1, local_ip |-> "127.0.0.1",
              remote_as |-> LocalAs2, remote_ip |-> "127.0.0.2",
              mode |-> "Active"]
        ELSE [local_as |-> LocalAs2, local_ip |-> "127.0.0.2",
              remote_as |-> LocalAs1, remote_ip |-> "127.0.0.1",
              mode |-> "Passive"]]

Remote(p) == CHOOSE q \in Peers : Config[q].local_ip = Config[p].remote_ip

\* config.networks, each found once in the kernel routing table
Networks == <<"10.100.220.0/24", "10.200.100.0/24", "10.100.110.0/24",
              "10.200.210.0/24">>

----
(* State and Event *)
Idle        == "Idle"
Connect     == "Connect"
OpenSent    == "OpenSent"
OpenConfirm == "OpenConfirm"
Established == "Established"

State == {Idle, Connect, OpenSent, OpenConfirm, Established}

ManualStart            == [tag |-> "ManualStart"]
TcpConnectionConfirmed == [tag |-> "TcpConnectionConfirmed"]
EstablishedEvent       == [tag |-> "Established"]
LocRibChanged          == [tag |-> "LocRibChanged"]
AdjRibOutChanged       == [tag |-> "AdjRibOutChanged"]
BgpOpen(open)          == [tag |-> "BgpOpen", msg |-> open]
KeepAliveMsg(k)        == [tag |-> "KeepAliveMsg", msg |-> k]
UpdateMsg(u)           == [tag |-> "UpdateMsg", msg |-> u]
NoEvent                == [tag |-> "None"]

----
(* Messages *)
new_open(my_as_number, my_ip_addr) ==
    [type |-> "Open", my_as |-> my_as_number, my_ip |-> my_ip_addr]

new_keepalive == [type |-> "Keepalive"]

----
(* EventQueue *)
EventQueueNew == <<>>

enqueue(q, event) == <<event>> \o q

\* pop_front in place of pop_back
dequeue_front(q) ==
    IF q = <<>>
    THEN [event |-> NoEvent, queue |-> q]
    ELSE [event |-> q[1], queue |-> SubSeq(q, 2, Len(q))]

dequeue(q) ==
    IF q = <<>>
    THEN [event |-> NoEvent, queue |-> q]
    ELSE [event |-> q[Len(q)], queue |-> SubSeq(q, 1, Len(q) - 1)]

----
(* Routing *)
Origin(o)   == [tag |-> "Origin", v |-> o]
AsPath(k, s) == [tag |-> "AsPath", kind |-> k, v |-> s]
NextHop(a)  == [tag |-> "NextHop", v |-> a]

AsPathAdd(as_path, as_number) ==
    [as_path EXCEPT !.v = <<as_number>> \o as_path.v]

LocRibNew(config, routes) ==
    [i \in 1..Len(routes) |->
        [network_address |-> routes[i],
         path_attributes |-> <<Origin("Igp"),
                               AsPath("AsSequence", <<>>),
                               NextHop(config.local_ip)>>]]

\* the AS number is not added
append_as_path_none(entry, as_number) == entry

\* a second AsPath attribute is pushed instead of changing the one there
append_as_path_pushes(entry, as_number) ==
    [entry EXCEPT !.path_attributes =
        Append(@, AsPath("AsSequence", <<as_number>>))]

append_as_path(entry, as_number) ==
    [entry EXCEPT !.path_attributes =
        [i \in 1..Len(entry.path_attributes) |->
            IF entry.path_attributes[i].tag = "AsPath"
            THEN AsPathAdd(entry.path_attributes[i], as_number)
            ELSE entry.path_attributes[i]]]

\* the next hop is left as it is in the Loc-RIB
change_next_hop_none(entry, next_hop) == entry

change_next_hop(entry, next_hop) ==
    [entry EXCEPT !.path_attributes =
        [i \in 1..Len(entry.path_attributes) |->
            IF entry.path_attributes[i].tag = "NextHop"
            THEN NextHop(next_hop)
            ELSE entry.path_attributes[i]]]

install_from_loc_rib(adj, loc, config) ==
    adj \o [i \in 1..Len(loc) |->
               change_next_hop(append_as_path(loc[i], config.local_as),
                               config.local_ip)]

AdjRibOutNew == <<>>

UpdatesFrom(adj) ==
    [i \in 1..Len(adj) |->
        [type |-> "Update",
         path_attributes |-> adj[i].path_attributes,
         nlri |-> <<adj[i].network_address>>]]

----
(* Peer *)
\* push_back in place of enqueue
handle_message_back(q, message) ==
    CASE message.type = "Open"      -> Append(q, BgpOpen(message))
      [] message.type = "Keepalive" -> Append(q, KeepAliveMsg(message))
      [] message.type = "Update"    -> Append(q, UpdateMsg(message))

\* the event of a message is enqueued twice
handle_message_twice(q, message) ==
    CASE message.type = "Open"      ->
             enqueue(enqueue(q, BgpOpen(message)), BgpOpen(message))
      [] message.type = "Keepalive" ->
             enqueue(enqueue(q, KeepAliveMsg(message)), KeepAliveMsg(message))
      [] message.type = "Update"    ->
             enqueue(enqueue(q, UpdateMsg(message)), UpdateMsg(message))

handle_message(q, message) ==
    CASE message.type = "Open"      -> enqueue(q, BgpOpen(message))
      [] message.type = "Keepalive" -> enqueue(q, KeepAliveMsg(message))
      [] message.type = "Update"    -> enqueue(q, UpdateMsg(message))

\* The match with one more arm: OpenSent also accepts KeepAliveMsg.
Arm_KeepaliveInOpenSent(st, event) ==
    CASE st = Idle /\ event.tag = "ManualStart"               -> "connect"
      [] st = Connect /\ event.tag = "TcpConnectionConfirmed" -> "open"
      [] st = OpenSent /\ event.tag = "BgpOpen"               -> "keepalive"
      [] st = OpenSent /\ event.tag = "KeepAliveMsg"          -> "established"
      [] st = OpenConfirm /\ event.tag = "KeepAliveMsg"       -> "established"
      [] st = Established
           /\ event.tag \in {"Established", "LocRibChanged"}  -> "install"
      [] st = Established /\ event.tag = "AdjRibOutChanged"   -> "updates"
      [] OTHER                                                -> "ignore"

\* The match with one more arm: Connect answers ManualStart with an Open.
Arm_StartInConnect(st, event) ==
    CASE st = Idle /\ event.tag = "ManualStart"               -> "connect"
      [] st = Connect /\ event.tag = "TcpConnectionConfirmed" -> "open"
      [] st = Connect /\ event.tag = "ManualStart"            -> "open"
      [] st = OpenSent /\ event.tag = "BgpOpen"               -> "keepalive"
      [] st = OpenConfirm /\ event.tag = "KeepAliveMsg"       -> "established"
      [] st = Established
           /\ event.tag \in {"Established", "LocRibChanged"}  -> "install"
      [] st = Established /\ event.tag = "AdjRibOutChanged"   -> "updates"
      [] OTHER                                                -> "ignore"

\* The arm of the match in handle_event that (state, event) selects.
Arm(st, event) ==
    CASE st = Idle /\ event.tag = "ManualStart"               -> "connect"
      [] st = Connect /\ event.tag = "TcpConnectionConfirmed" -> "open"
      [] st = OpenSent /\ event.tag = "BgpOpen"               -> "keepalive"
      [] st = OpenConfirm /\ event.tag = "KeepAliveMsg"       -> "established"
      [] st = Established
           /\ event.tag \in {"Established", "LocRibChanged"}  -> "install"
      [] st = Established /\ event.tag = "AdjRibOutChanged"   -> "updates"
      [] OTHER                                                -> "ignore"

\* A Keepalive is also sent in answer to the Keepalive read in OpenConfirm.
handle_event_keepalive_reply(st, event, config, adj) ==
    LET arm == Arm(st, event) IN
    [state |-> CASE arm = "open"        -> OpenSent
                 [] arm = "keepalive"   -> OpenConfirm
                 [] arm = "established" -> Established
                 [] OTHER               -> st,
     enq   |-> IF arm = "established" THEN <<EstablishedEvent>> ELSE <<>>,
     out   |-> CASE arm = "open"      ->
                        <<new_open(config.local_as, config.local_ip)>>
                 [] arm \in {"keepalive", "established"} -> <<new_keepalive>>
                 [] arm = "updates"   -> UpdatesFrom(adj)
                 [] OTHER             -> <<>>]

\* AdjRibOutChanged sends an Update for the first entry only.
handle_event_first_only(st, event, config, adj) ==
    LET arm == Arm(st, event) IN
    [state |-> CASE arm = "open"        -> OpenSent
                 [] arm = "keepalive"   -> OpenConfirm
                 [] arm = "established" -> Established
                 [] OTHER               -> st,
     enq   |-> IF arm = "established" THEN <<EstablishedEvent>> ELSE <<>>,
     out   |-> CASE arm = "open"      ->
                        <<new_open(config.local_as, config.local_ip)>>
                 [] arm = "keepalive" -> <<new_keepalive>>
                 [] arm = "updates"   ->
                        SubSeq(UpdatesFrom(adj), 1, IF adj = <<>> THEN 0 ELSE 1)
                 [] OTHER             -> <<>>]

\* The effect of the arms that run to completion without waiting for another
\* task: the next state, the events enqueued and the messages sent.  The
\* "connect" and "install" arms wait (for the TCP connection, for the mutex);
\* their effects are in NextCall, AcceptDone, InstallDone and GetMessage.
handle_event(st, event, config, adj) ==
    LET arm == Arm(st, event) IN
    [state |-> CASE arm = "open"        -> OpenSent
                 [] arm = "keepalive"   -> OpenConfirm
                 [] arm = "established" -> Established
                 [] OTHER               -> st,
     enq   |-> IF arm = "established" THEN <<EstablishedEvent>> ELSE <<>>,
     out   |-> CASE arm = "open"      ->
                        <<new_open(config.local_as, config.local_ip)>>
                 [] arm = "keepalive" -> <<new_keepalive>>
                 [] arm = "updates"   -> UpdatesFrom(adj)
                 [] OTHER             -> <<>>]

RECURSIVE EnqueueAll(_, _)
EnqueueAll(q, events) ==
    IF events = <<>> THEN q
    ELSE EnqueueAll(enqueue(q, Head(events)), Tail(events))

\* The second half of next(): with a connection, get_message() returns the
\* oldest message written towards this peer when it has arrived (rd), or
\* nothing; its event is enqueued; then the call returns.
Complete(p, st1, q1, tcp1, adj1, out, lrc) ==
    \E rd \in IF tcp1 = "Some" /\ wire[p] # <<>> THEN {TRUE, FALSE} ELSE {FALSE} :
    LET q2 == IF rd THEN handle_message(q1, Head(wire[p])) ELSE q1
        w1 == IF rd THEN [wire EXCEPT ![p] = Tail(@)] ELSE wire
    IN  /\ state' = [state EXCEPT ![p] = st1]
        /\ event_queue' = [event_queue EXCEPT ![p] = q2]
        /\ tcp_connection' = [tcp_connection EXCEPT ![p] = tcp1]
        /\ adj_rib_out' = [adj_rib_out EXCEPT ![p] = adj1]
        /\ wire' = [w1 EXCEPT ![Remote(p)] = @ \o out]
        /\ sent' = [sent EXCEPT ![p] = @ \o out]
        /\ pc' = [pc EXCEPT ![p] = "ready"]
        /\ nextSinceStart' =
             [nextSinceStart EXCEPT ![p] =
                 IF startCount[p] > 0 /\ @ < MaxNext THEN @ + 1 ELSE @]
        /\ lrcPhase' = [lrcPhase EXCEPT ![p] =
                          IF lrc THEN 1 ELSE IF @ = 1 THEN 2 ELSE 0]
        /\ UNCHANGED <<loc_rib, startCount, lrcCount, injCount>>

\* the failure is ignored: the arm goes on to set the state, the call returns
Panic_ignored(p, q1) ==
    /\ Complete(p, Connect, q1, tcp_connection[p], adj_rib_out[p], <<>>, FALSE)
    /\ UNCHANGED lock_owner

\* panic!() or unwrap() on None: the task ends inside handle_event.
Panic(p, q1) ==
    /\ pc' = [pc EXCEPT ![p] = "dead"]
    /\ event_queue' = [event_queue EXCEPT ![p] = q1]
    /\ UNCHANGED <<state, tcp_connection, adj_rib_out, loc_rib, lock_owner,
                   wire, sent, startCount, lrcCount, injCount,
                   nextSinceStart, lrcPhase>>

\* The task waits inside handle_event: in accept(), or for the mutex (where
\* = "lock" for an Established event, "lock_lrc" for LocRibChanged).
Suspend(p, q1, where) ==
    /\ pc' = [pc EXCEPT ![p] = where]
    /\ event_queue' = [event_queue EXCEPT ![p] = q1]
    /\ UNCHANGED <<state, tcp_connection, adj_rib_out, loc_rib, lock_owner,
                   wire, sent, startCount, lrcCount, injCount,
                   nextSinceStart, lrcPhase>>

Extra(n) == IF n > 0 THEN n - 1 ELSE 0

EnvUsed ==
    Extra(startCount[1]) + Extra(startCount[2])
    + lrcCount[1] + lrcCount[2] + injCount[1] + injCount[2]

Listening(q) == pc[q] = "accept"

----
(* Wire codec *)
MaxPrefix           == 32   \* the largest prefix length of an Ipv4Network
header_bytes_length == 19
KeepaliveLength     == 19   \* the length KeepaliveMessage::new gives its header

Ok(v) == [ok |-> TRUE, value |-> v]
Err   == [ok |-> FALSE]
Panicked == [panicked |-> TRUE]
Returned(v) == [panicked |-> FALSE, value |-> v]

Pow2(n) == CASE n = 0 -> 1 [] n = 1 -> 2 [] n = 2 -> 4 [] n = 3 -> 8
             [] n = 4 -> 16 [] n = 5 -> 32 [] n = 6 -> 64 [] n = 7 -> 128
             [] n = 8 -> 256

\* The number of leading bits of octet i (1..4) a prefix of length l covers.
BitsKept(l, i) ==
    IF l >= 8 * i THEN 8 ELSE IF l <= 8 * (i - 1) THEN 0 ELSE l - 8 * (i - 1)

\* network.network().octets(): the address with its host bits cleared.
NetworkOctets(network) ==
    [i \in 1..4 |->
        (network.addr[i] \div Pow2(8 - BitsKept(network.prefix, i)))
            * Pow2(8 - BitsKept(network.prefix, i))]

\* impl From<&Ipv4Network> for BytesMut
Ipv4NetworkBytes(network) ==
    LET prefix == network.prefix
        n      == NetworkOctets(network)
    IN  CASE prefix = 0        -> Returned(<<prefix>>)
          [] prefix \in 1..8   -> Returned(<<prefix>> \o SubSeq(n, 1, 1))
          [] prefix \in 9..16  -> Returned(<<prefix>> \o SubSeq(n, 1, 2))
          [] prefix \in 17..24 -> Returned(<<prefix>> \o SubSeq(n, 1, 3))
          [] prefix \in 25..32 -> Returned(<<prefix>> \o SubSeq(n, 1, 4))
          [] OTHER             -> Panicked

bytes_len(network) ==
    CASE network.prefix \in 0..8   -> Returned(2)
      [] network.prefix \in 9..16  -> Returned(3)
      [] network.prefix \in 17..24 -> Returned(4)
      [] network.prefix \in 25..32 -> Returned(5)
      [] OTHER                     -> Panicked

MessageTypes == {"Open", "Update", "Keepalive"}

TypeByte(type_) ==
    CASE type_ = "Open" -> 1 [] type_ = "Update" -> 2 [] type_ = "Keepalive" -> 4

HeaderNew(length, type_) == [length |-> length, type_ |-> type_]

Marker == [i \in 1..16 |-> 255]

HeaderBytes(header) ==
    Marker \o <<header.length \div 256, header.length % 256>>
           \o <<TypeByte(header.type_)>>

HeaderTryFrom(bytes) ==
    IF Len(bytes) < 19 THEN Err
    ELSE IF bytes[19] \notin {TypeByte(t) : t \in MessageTypes} THEN Err
    ELSE IF bytes[17] * 256 + bytes[18] > Len(bytes) THEN Err
    ELSE Ok(HeaderNew(bytes[17] * 256 + bytes[18],
                      CHOOSE t \in MessageTypes : TypeByte(t) = bytes[19]))

KeepaliveMessageNew == [header |-> HeaderNew(KeepaliveLength, "Keepalive")]

KeepaliveBytes(keepalive) == HeaderBytes(keepalive.header)

\* the type of the header is not looked at
KeepaliveTryFrom_any_type(bytes) ==
    LET header == HeaderTryFrom(bytes) IN
    IF ~header.ok THEN Err ELSE Ok([header |-> header.value])

KeepaliveTryFrom(bytes) ==
    LET header == HeaderTryFrom(bytes) IN
    IF ~header.ok THEN Err
    ELSE IF header.value.type_ # "Keepalive" THEN Err
    ELSE Ok([header |-> header.value])

\* OpenMessage and UpdateMessage decoding: a body must follow the header.
BodyTryFrom(bytes, type_) ==
    IF Len(bytes) <= header_bytes_length THEN Err
    ELSE Ok([type |-> type_, bytes |-> bytes])

\* impl TryFrom<BytesMut> for Message
MessageTryFrom(bytes) ==
    IF Len(bytes) < header_bytes_length THEN Err
    ELSE LET header == HeaderTryFrom(SubSeq(bytes, 1, header_bytes_length)) IN
         IF ~header.ok THEN Err
         ELSE CASE header.value.type_ = "Open"   -> BodyTryFrom(bytes, "Open")
                [] header.value.type_ = "Update" -> BodyTryFrom(bytes, "Update")
                [] header.value.type_ = "Keepalive" ->
                     LET k == KeepaliveTryFrom(bytes) IN
                     IF k.ok THEN Ok([type |-> "Keepalive", keepalive |-> k.value])
                     ELSE Err

\* The values the conversions are applied to.
Addresses == {<<0, 0, 0, 0>>, <<10, 100, 220, 0>>, <<192, 168, 1, 77>>,
              <<255, 255, 255, 255>>}

Ipv4Networks ==
    {[kind |-> "Ipv4Network", addr |-> a, prefix |-> l] :
        a \in Addresses, l \in 0..MaxPrefix}

\* Headers written by a sender, whole or cut short, and headers with a type
\* byte that is no message type.
Buffers ==
    {SubSeq(Marker \o <<0, length>> \o <<t>>, 1, n) :
        length \in {19, 23, 29}, t \in {1, 2, 3, 4}, n \in 0..19}

CodecInputs ==
    Ipv4Networks \cup {[kind |-> "KeepaliveMessage"]}
                 \cup {[kind |-> "BytesMut", bytes |-> b] : b \in Buffers}

NoInput == [kind |-> "None"]
NoCall  == [op |-> "None"]

ProgramInit ==
    /\ state = [p \in Peers |-> Idle]
    /\ event_queue = [p \in Peers |-> EventQueueNew]
    /\ tcp_connection = [p \in Peers |-> "None"]
    /\ adj_rib_out = [p \in Peers |-> AdjRibOutNew]
    /\ \E n \in 0..MaxRib : loc_rib = LocRibNew(Config[1], SubSeq(Networks, 1, n))
    /\ lock_owner = NoPeer
    /\ pc = [p \in Peers |-> "ready"]
    /\ wire = [p \in Peers |-> <<>>]
    /\ sent = [p \in Peers |-> <<>>]
    /\ startCount = [p \in Peers |-> 0]
    /\ lrcCount = [p \in Peers |-> 0]
    /\ injCount = [p \in Peers |-> 0]
    /\ nextSinceStart = [p \in Peers |-> 0]
    /\ lrcPhase = [p \in Peers |-> 0]
    /\ eq = EventQueueNew
    /\ enq_log = <<>>
    /\ deq_log = <<>>

Init ==
    /\ ProgramInit
    /\ codec_in = NoInput
    /\ codec_out = NoCall

Start(p) ==
    /\ pc[p] = "ready"
    /\ startCount[p] = 0 \/ EnvUsed < MaxEnv
    /\ event_queue' = [event_queue EXCEPT ![p] = enqueue(@, ManualStart)]
    /\ startCount' = [startCount EXCEPT ![p] = @ + 1]
    /\ UNCHANGED <<state, tcp_connection, adj_rib_out, loc_rib, lock_owner,
                   pc, wire, sent, lrcCount, injCount,
                   nextSinceStart, lrcPhase>>
    /\ UNCHANGED queueVars
    /\ UNCHANGED codecVars

NextCall(p) ==
    /\ pc[p] = "ready"
    /\ LET d   == dequeue(event_queue[p])
           e   == d.event
           q1  == d.queue
           arm == IF e = NoEvent THEN "none" ELSE Arm(state[p], e)
           h   == handle_event(state[p], e, Config[p], adj_rib_out[p])
       IN  CASE arm = "connect" /\ Config[p].mode = "Active" ->
                  IF Listening(Remote(p))
                  THEN /\ Complete(p, Connect,
                                   enqueue(q1, TcpConnectionConfirmed), "Some",
                                   adj_rib_out[p], <<>>, FALSE)
                       /\ UNCHANGED lock_owner
                  ELSE Panic(p, q1)
             [] arm = "connect" /\ Config[p].mode = "Passive" ->
                  Suspend(p, q1, "accept")
             [] arm = "install" ->
                  Suspend(p, q1, IF e = LocRibChanged THEN "lock_lrc" ELSE "lock")
             [] arm = "none" ->
                  /\ Complete(p, state[p], q1, tcp_connection[p],
                              adj_rib_out[p], <<>>, FALSE)
                  /\ UNCHANGED lock_owner
             [] OTHER ->
                  IF h.out # <<>> /\ tcp_connection[p] = "None"
                  THEN Panic(p, q1)
                  ELSE /\ Complete(p, h.state, EnqueueAll(q1, h.enq),
                                   tcp_connection[p], adj_rib_out[p], h.out,
                                   FALSE)
                       /\ UNCHANGED lock_owner
    /\ UNCHANGED queueVars
    /\ UNCHANGED codecVars

AcceptDone(p) ==
    /\ pc[p] = "accept"
    /\ tcp_connection[Remote(p)] = "Some"
    /\ Complete(p, Connect, enqueue(event_queue[p], TcpConnectionConfirmed),
                "Some", adj_rib_out[p], <<>>, FALSE)
    /\ UNCHANGED lock_owner
    /\ UNCHANGED queueVars
    /\ UNCHANGED codecVars

AcquireLock(p) ==
    /\ pc[p] \in {"lock", "lock_lrc"}
    /\ lock_owner = NoPeer
    /\ lock_owner' = p
    /\ pc' = [pc EXCEPT ![p] = IF @ = "lock" THEN "locked" ELSE "locked_lrc"]
    /\ UNCHANGED <<state, event_queue, tcp_connection, adj_rib_out, loc_rib,
                   wire, sent, startCount, lrcCount, injCount,
                   nextSinceStart, lrcPhase>>
    /\ UNCHANGED queueVars
    /\ UNCHANGED codecVars

\* the MutexGuard is kept beyond the end of the match arm
InstallDone_keeps_lock(p) ==
    /\ pc[p] \in {"locked", "locked_lrc"}
    /\ lock_owner = p
    /\ adj_rib_out' = [adj_rib_out EXCEPT ![p] =
                          install_from_loc_rib(@, loc_rib, Config[p])]
    /\ event_queue' = [event_queue EXCEPT ![p] = enqueue(@, AdjRibOutChanged)]
    /\ pc' = [pc EXCEPT ![p] = IF @ = "locked" THEN "unlocked"
                                              ELSE "unlocked_lrc"]
    /\ UNCHANGED <<state, tcp_connection, loc_rib, lock_owner, wire, sent,
                   startCount, lrcCount, injCount, nextSinceStart, lrcPhase>>
    /\ UNCHANGED queueVars
    /\ UNCHANGED codecVars

\* one Adj-RIB-Out is shared by the peers in place of one per peer
InstallDone_shared_adj(p) ==
    /\ pc[p] \in {"locked", "locked_lrc"}
    /\ lock_owner = p
    /\ adj_rib_out' = [q \in Peers |->
                          install_from_loc_rib(adj_rib_out[p], loc_rib, Config[p])]
    /\ event_queue' = [event_queue EXCEPT ![p] = enqueue(@, AdjRibOutChanged)]
    /\ lock_owner' = NoPeer
    /\ pc' = [pc EXCEPT ![p] = IF @ = "locked" THEN "unlocked"
                                              ELSE "unlocked_lrc"]
    /\ UNCHANGED <<state, tcp_connection, loc_rib, wire, sent,
                   startCount, lrcCount, injCount, nextSinceStart, lrcPhase>>
    /\ UNCHANGED queueVars
    /\ UNCHANGED codecVars

\* With the mutex held: install, enqueue AdjRibOutChanged; the MutexGuard is
\* dropped at the end of the match arm and handle_event returns.
InstallDone(p) ==
    /\ pc[p] \in {"locked", "locked_lrc"}
    /\ lock_owner = p
    /\ adj_rib_out' = [adj_rib_out EXCEPT ![p] =
                          install_from_loc_rib(@, loc_rib, Config[p])]
    /\ event_queue' = [event_queue EXCEPT ![p] = enqueue(@, AdjRibOutChanged)]
    /\ lock_owner' = NoPeer
    /\ pc' = [pc EXCEPT ![p] = IF @ = "locked" THEN "unlocked"
                                              ELSE "unlocked_lrc"]
    /\ UNCHANGED <<state, tcp_connection, loc_rib, wire, sent,
                   startCount, lrcCount, injCount, nextSinceStart, lrcPhase>>
    /\ UNCHANGED queueVars
    /\ UNCHANGED codecVars

\* The second half of the next() call that installed: get_message().
GetMessage(p) ==
    /\ pc[p] \in {"unlocked", "unlocked_lrc"}
    /\ Complete(p, state[p], event_queue[p], tcp_connection[p],
                adj_rib_out[p], <<>>, pc[p] = "unlocked_lrc")
    /\ UNCHANGED lock_owner
    /\ UNCHANGED queueVars
    /\ UNCHANGED codecVars

\* The Loc-RIB owner tells a peer that the Loc-RIB changed.
NotifyLocRibChanged(p) ==
    /\ pc[p] = "ready"
    /\ EnvUsed < MaxEnv
    /\ event_queue' = [event_queue EXCEPT ![p] = enqueue(@, LocRibChanged)]
    /\ lrcCount' = [lrcCount EXCEPT ![p] = @ + 1]
    /\ UNCHANGED <<state, tcp_connection, adj_rib_out, loc_rib, lock_owner,
                   pc, wire, sent, startCount, injCount,
                   nextSinceStart, lrcPhase>>
    /\ UNCHANGED queueVars
    /\ UNCHANGED codecVars

\* A speaker other than the modelled remote peer is at the far end and
\* writes a message of its choice.
ForeignMessages ==
    {new_open(LocalAs2, "127.0.0.9"), new_keepalive,
     [type |-> "Update",
      path_attributes |-> <<Origin("Igp"), AsPath("AsSequence", <<LocalAs2>>),
                            NextHop("127.0.0.9")>>,
      nlri |-> <<"10.100.220.0/24">>]}

Inject(p, m) ==
    /\ tcp_connection[p] = "Some"
    /\ EnvUsed < MaxEnv
    /\ wire' = [wire EXCEPT ![p] = Append(@, m)]
    /\ injCount' = [injCount EXCEPT ![p] = @ + 1]
    /\ UNCHANGED <<state, event_queue, tcp_connection, adj_rib_out, loc_rib,
                   lock_owner, pc, sent, startCount, lrcCount,
                   nextSinceStart, lrcPhase>>
    /\ UNCHANGED queueVars
    /\ UNCHANGED codecVars

(* A free-standing EventQueue, driven by any interleaving of its two calls *)
QEvents == {ManualStart, TcpConnectionConfirmed, LocRibChanged}

QEnqueue(event) ==
    /\ Len(enq_log) < MaxOps
    /\ eq' = enqueue(eq, event)
    /\ enq_log' = Append(enq_log, event)
    /\ UNCHANGED deq_log
    /\ UNCHANGED peerVars
    /\ UNCHANGED codecVars

QDequeue ==
    /\ Len(deq_log) < MaxOps
    /\ eq' = dequeue(eq).queue
    /\ deq_log' = Append(deq_log, dequeue(eq).event)
    /\ UNCHANGED enq_log
    /\ UNCHANGED peerVars
    /\ UNCHANGED codecVars

QNext ==
    \/ \E event \in QEvents : QEnqueue(event)
    \/ QDequeue

QueueSpec == Init /\ [][QNext]_vars

(* The conversions of the wire codec, each applied to any input of its type *)
CodecInit ==
    /\ ProgramInit
    /\ codec_in \in CodecInputs
    /\ codec_out = NoCall

Apply(op, ret) ==
    /\ codec_out' = [op |-> op, ret |-> ret]
    /\ UNCHANGED codec_in
    /\ UNCHANGED peerVars
    /\ UNCHANGED queueVars

EncodeNetwork ==
    /\ codec_in.kind = "Ipv4Network"
    /\ Apply("BytesMut::from", Ipv4NetworkBytes(codec_in))

CallBytesLen ==
    /\ codec_in.kind = "Ipv4Network"
    /\ Apply("bytes_len", bytes_len(codec_in))

EncodeKeepalive ==
    /\ codec_in.kind = "KeepaliveMessage"
    /\ Apply("BytesMut::from", KeepaliveBytes(KeepaliveMessageNew))

DecodeKeepalive ==
    /\ codec_in.kind = "BytesMut"
    /\ Apply("KeepaliveMessage::try_from", KeepaliveTryFrom(codec_in.bytes))

DecodeMessage ==
    /\ codec_in.kind = "BytesMut"
    /\ Apply("Message::try_from", MessageTryFrom(codec_in.bytes))

CodecNext ==
    \/ EncodeNetwork
    \/ CallBytesLen
    \/ EncodeKeepalive
    \/ DecodeKeepalive
    \/ DecodeMessage

CodecSpec == CodecInit /\ [][CodecNext]_vars

PeerStep(p) ==
    \/ NextCall(p)
    \/ AcceptDone(p)
    \/ AcquireLock(p)
    \/ InstallDone(p)
    \/ GetMessage(p)

Next ==
    \E p \in Peers :
        \/ Start(p)
        \/ NextCall(p)
        \/ AcceptDone(p)
        \/ AcquireLock(p)
        \/ InstallDone(p)
        \/ GetMessage(p)
        \/ NotifyLocRibChanged(p)

NextAny ==
    \/ Next
    \/ \E p \in Peers : \E m \in ForeignMessages : Inject(p, m)

Spec    == Init /\ [][Next]_vars
SpecAny == Init /\ [][NextAny]_vars

\* The supervisor calls start() on every peer; every peer task keeps being
\* stepped by the runtime; TCP hands over every message written, so a peer
\* that keeps calling next() reads it.
FirstStart(p)  == startCount[p] = 0 /\ Start(p)
ReadingStep(p) == PeerStep(p) /\ Len(wire'[p]) < Len(wire[p])

\* The peers driven through start() and next() alone.
NextApi ==
    \E p \in Peers :
        \/ Start(p)
        \/ NextCall(p)
        \/ AcceptDone(p)
        \/ AcquireLock(p)
        \/ InstallDone(p)
        \/ GetMessage(p)

FairSpec ==
    /\ Init
    /\ [][NextApi]_vars
    /\ \A p \in Peers :
          /\ WF_vars(FirstStart(p))
          /\ WF_vars(PeerStep(p))
          /\ WF_vars(ReadingStep(p))

\* The peers driven through start() (once each), next() and LocRibChanged
\* notifications.
NextLock ==
    \E p \in Peers :
        \/ FirstStart(p)
        \/ NextCall(p)
        \/ AcceptDone(p)
        \/ AcquireLock(p)
        \/ InstallDone(p)
        \/ GetMessage(p)
        \/ NotifyLocRibChanged(p)

\* The peers share a Loc-RIB of one route.
LockInit == Init /\ Len(loc_rib) = 1

\* The runtime keeps stepping every spawned peer task, and a task waiting
\* for the mutex takes it once it stays free.
FairLockSpec ==
    /\ LockInit
    /\ [][NextLock]_vars
    /\ \A p \in Peers : WF_vars(PeerStep(p))

----
(* Properties *)
Last(q) == q[Len(q)]
Front(q) == SubSeq(q, 1, Len(q) - 1)

\* A step in which peer p's next() call starts and does something.
Called(p) ==
    /\ pc[p] = "ready"
    /\ startCount' = startCount
    /\ lrcCount' = lrcCount
    /\ injCount' = injCount
    /\ \/ event_queue'[p] # event_queue[p]
       \/ Len(wire'[p]) < Len(wire[p])
       \/ pc'[p] # pc[p]

\* The event whose dispatch is in progress in a step of peer p.
DispatchedTag(p) ==
    CASE pc[p] = "accept"                    -> "ManualStart"
      [] pc[p] \in {"lock", "locked", "unlocked"} -> "Established"
      [] pc[p] \in {"lock_lrc", "locked_lrc", "unlocked_lrc"}
                                             -> "LocRibChanged"
      [] pc[p] = "ready" /\ event_queue[p] # <<>> -> Last(event_queue[p]).tag
      [] OTHER                               -> "None"

AnyDead == \E p \in Peers : pc[p] = "dead"
AllEstablished == \A p \in Peers : state[p] = Established

\* C1: two peers with complementary configurations, both started and both
\* kept being stepped, both reach Established unless TCP connection
\* establishment fails (the Active peer connects before the Passive peer
\* listens, which ends the Active peer's task).
C1_BothEstablished == <>(AnyDead \/ AllEstablished)

C1_Witness == AllEstablished /\ ~AnyDead

TransitionTable ==
    {<<Idle, "ManualStart", Connect>>,
     <<Connect, "TcpConnectionConfirmed", OpenSent>>,
     <<OpenSent, "BgpOpen", OpenConfirm>>,
     <<OpenConfirm, "KeepAliveMsg", Established>>}

C2_Step(p) ==
    /\ state'[p] # state[p] =>
          <<state[p], DispatchedTag(p), state'[p]>> \in TransitionTable
    /\ (pc'[p] = "accept" /\ pc[p] # "accept") =>
          /\ state[p] = Idle
          /\ event_queue[p] # <<>>
          /\ Last(event_queue[p]) = ManualStart
    /\ state[p] = Established => state'[p] = Established

\* C2: a peer starts in Idle and its state changes only by Idle->Connect on
\* ManualStart, Connect->OpenSent on TcpConnectionConfirmed,
\* OpenSent->OpenConfirm on BgpOpen and OpenConfirm->Established on
\* KeepAliveMsg; it never skips a state, never moves backwards and never
\* leaves Established.
C2_FsmSteps ==
    /\ \A p \in Peers : state[p] = Idle
    /\ [][\A p \in Peers : C2_Step(p)]_vars

C2_Witness ==
    /\ \A p \in Peers : state[p] = Established
    /\ EnvUsed > 0

\* C3: with start() called once on a new peer and the TCP connection made,
\* the state is Connect after one next() call, and OpenSent with exactly one
\* Open(local_as, local_ip) sent after two, whatever has been written towards
\* the peer and whether or not a message was read.  (The scenario holds
\* start() and next() calls only: no LocRibChanged notification.)
C3_FirstTwoCalls ==
    \A p \in Peers :
        (startCount[p] = 1 /\ lrcCount[p] = 0) =>
            /\ nextSinceStart[p] = 1 =>
                  state[p] = Connect /\ sent[p] = <<>>
            /\ nextSinceStart[p] = 2 =>
                  /\ state[p] = OpenSent
                  /\ sent[p] = <<new_open(Config[p].local_as,
                                          Config[p].local_ip)>>

C3_Witness ==
    \E p \in Peers :
        /\ startCount[p] = 1 /\ lrcCount[p] = 0
        /\ nextSinceStart[p] = 2
        /\ state[p] = OpenSent
        /\ event_queue[p] # <<>>

ListedPairs ==
    {<<Idle, "ManualStart">>, <<Connect, "TcpConnectionConfirmed">>,
     <<OpenSent, "BgpOpen">>, <<OpenConfirm, "KeepAliveMsg">>,
     <<Established, "Established">>, <<Established, "LocRibChanged">>,
     <<Established, "AdjRibOutChanged">>}

MessageEventTag(m) ==
    CASE m.type = "Open" -> "BgpOpen"
      [] m.type = "Keepalive" -> "KeepAliveMsg"
      [] m.type = "Update" -> "UpdateMsg"

C4_Step(p) ==
    (/\ Called(p)
     /\ event_queue[p] # <<>>
     /\ <<state[p], Last(event_queue[p]).tag>> \notin ListedPairs) =>
        /\ state'[p] = state[p]
        /\ adj_rib_out'[p] = adj_rib_out[p]
        /\ tcp_connection'[p] = tcp_connection[p]
        /\ sent'[p] = sent[p]
        /\ wire'[Remote(p)] = wire[Remote(p)]
        /\ pc'[p] = "ready"
        /\ \/ /\ event_queue'[p] = Front(event_queue[p])
              /\ wire'[p] = wire[p]
           \/ /\ wire[p] # <<>>
              /\ wire'[p] = Tail(wire[p])
              /\ Len(event_queue'[p]) = Len(event_queue[p])
              /\ Tail(event_queue'[p]) = Front(event_queue[p])
              /\ event_queue'[p][1].tag = MessageEventTag(Head(wire[p]))
              /\ event_queue'[p][1].msg = Head(wire[p])

\* C4: dispatching an event in a state whose (state, event) pair is not in
\* the transition table removes the event from the queue and changes nothing
\* else: state, Adj-RIB-Out and connection stay, no message is sent and no
\* event is enqueued by the dispatch (the read half of the same next() call
\* may still enqueue the event of one message read).
C4_UnlistedIgnored == [][\A p \in Peers : C4_Step(p)]_vars

\* The second start() of a peer has been dispatched outside Idle.
C4_Witness ==
    \E p \in Peers :
        /\ startCount[p] = 2
        /\ pc[p] = "ready"
        /\ state[p] \in {OpenSent, OpenConfirm, Established}
        /\ \A i \in 1..Len(event_queue[p]) : event_queue[p][i] # ManualStart

\* An install on an empty Adj-RIB-Out completes in this step.
FirstInstall(p) ==
    /\ pc[p] \in {"locked", "locked_lrc"}
    /\ pc'[p] # pc[p]
    /\ adj_rib_out[p] = <<>>

LocRibForm ==
    \A i \in 1..Len(loc_rib) :
        /\ Len(loc_rib[i].path_attributes) = 3
        /\ loc_rib[i].path_attributes[1] = Origin("Igp")
        /\ loc_rib[i].path_attributes[2] = AsPath("AsSequence", <<>>)
        /\ loc_rib[i].path_attributes[3].tag = "NextHop"

C5_Step(p) ==
    (FirstInstall(p) /\ LocRibForm) =>
        /\ Len(adj_rib_out'[p]) = Len(loc_rib)
        /\ \A i \in 1..Len(loc_rib) :
              adj_rib_out'[p][i] =
                 [network_address |-> loc_rib[i].network_address,
                  path_attributes |->
                     <<Origin("Igp"),
                       AsPath("AsSequence", <<Config[p].local_as>>),
                       NextHop(Config[p].local_ip)>>]
        /\ loc_rib' = loc_rib

\* C5: install_from_loc_rib on an empty Adj-RIB-Out yields, for every Loc-RIB
\* entry (N, [Origin(IGP), AsPath(AS_SEQUENCE([])), NextHop(X)]) and in
\* Loc-RIB order, the entry (N, [Origin(IGP), AsPath(AS_SEQUENCE([local_as])),
\* NextHop(local_ip)]); the Loc-RIB is left unchanged.
C5_InstallFromLocRib == [][\A p \in Peers : C5_Step(p)]_vars

\* Peer 2 (whose local_ip is not the Loc-RIB's next hop) has installed a
\* Loc-RIB of two routes.
C5_Witness ==
    /\ Len(loc_rib) = 2
    /\ Len(adj_rib_out[2]) = 2
    /\ loc_rib[1].path_attributes[3] # NextHop(Config[2].local_ip)

\* C6: after any number k >= 1 of installs from the unchanged Loc-RIB the
\* Adj-RIB-Out holds what it holds after one install.
C6_InstallIdempotent ==
    \A p \in Peers :
        \/ adj_rib_out[p] = AdjRibOutNew
        \/ adj_rib_out[p] = install_from_loc_rib(AdjRibOutNew, loc_rib, Config[p])

UpdateOf(entry) ==
    [type |-> "Update",
     path_attributes |-> entry.path_attributes,
     nlri |-> <<entry.network_address>>]

\* The messages peer p writes in this step.
NewlySent(p) == SubSeq(sent'[p], Len(sent[p]) + 1, Len(sent'[p]))

Range(f) == {f[i] : i \in DOMAIN f}

\* The next() call after the one that dispatched LocRibChanged in
\* Established completes in this step.
OneMoreNext(p) == lrcPhase[p] = 1 /\ lrcPhase'[p] = 2

\* C7 as claimed: after LocRibChanged has been dispatched in Established and
\* one more next() call has completed, an Update has been written for every
\* RibEntry of the Adj-RIB-Out, whatever else is pending in the queue.
C7_UpdatesAfterOneMoreNext ==
    [][\A p \in Peers :
          OneMoreNext(p) =>
              \A i \in 1..Len(adj_rib_out'[p]) :
                  UpdateOf(adj_rib_out'[p][i]) \in Range(sent'[p])]_vars

\* C7 as amended: ... provided AdjRibOutChanged is the oldest event in the
\* queue when that further next() call starts; the call then writes exactly
\* one Update per RibEntry of the Adj-RIB-Out.
C7_UpdatesWhenAdjRibOutChangedIsOldest ==
    [][\A p \in Peers :
          (/\ OneMoreNext(p)
           /\ pc[p] = "ready"
           /\ event_queue[p] # <<>>
           /\ Last(event_queue[p]) = AdjRibOutChanged) =>
              /\ Len(NewlySent(p)) = Len(adj_rib_out'[p])
              /\ \A i \in 1..Len(adj_rib_out'[p]) :
                    NewlySent(p)[i] = UpdateOf(adj_rib_out'[p][i])]_vars

C7_Witness ==
    \E p \in Peers :
        /\ lrcPhase[p] = 2
        /\ adj_rib_out[p] # <<>>
        /\ Len(sent[p]) >= 2 + Len(adj_rib_out[p])
        /\ \A i \in 1..Len(adj_rib_out[p]) :
              sent[p][Len(sent[p]) - Len(adj_rib_out[p]) + i]
                 = UpdateOf(adj_rib_out[p][i])

\* The (prefix, attributes) pairs the current Loc-RIB gives peer p.
ExpectedPairs(p) ==
    {<<loc_rib[i].network_address,
       <<loc_rib[i].path_attributes[1],
         AsPath(loc_rib[i].path_attributes[2].kind,
                <<Config[p].local_as>> \o loc_rib[i].path_attributes[2].v),
         NextHop(Config[p].local_ip)>>>> : i \in 1..Len(loc_rib)}

C8_Step(p) ==
    (/\ Called(p)
     /\ state[p] = Established
     /\ event_queue[p] # <<>>
     /\ Last(event_queue[p]) = AdjRibOutChanged) =>
        /\ Len(NewlySent(p)) = Len(adj_rib_out[p])
        /\ \A i \in 1..Len(NewlySent(p)) :
              /\ NewlySent(p)[i].type = "Update"
              /\ Len(NewlySent(p)[i].nlri) = 1
        /\ {<<m.nlri[1], m.path_attributes>> : m \in Range(NewlySent(p))}
              = ExpectedPairs(p)

\* C8: dispatching AdjRibOutChanged in Established emits one Update per
\* RibEntry of the Adj-RIB-Out, and the set of advertised (prefix,
\* attributes) pairs is exactly the set the current Loc-RIB gives by
\* prepending local_as to the AS_PATH and setting NextHop to local_ip.
C8_AdvertisedPairs == [][\A p \in Peers : C8_Step(p)]_vars

C8_Witness ==
    \E p \in Peers :
        /\ state[p] = Established
        /\ Len(loc_rib) = 2
        /\ Len(sent[p]) >= 4
        /\ sent[p][3] # sent[p][4]

IsSuffix(s, t) ==
    /\ Len(s) <= Len(t)
    /\ SubSeq(t, Len(t) - Len(s) + 1, Len(t)) = s

Dequeued(log) == SelectSeq(log, LAMBDA e : e # NoEvent)

\* C9: for any interleaving of enqueue and dequeue on an EventQueue, dequeue
\* returns the oldest event still queued, or nothing when the queue is empty;
\* the events dequeued so far are a prefix of the events enqueued.
C9_Fifo ==
    /\ [](/\ Len(Dequeued(deq_log)) <= Len(enq_log)
          /\ Dequeued(deq_log) = SubSeq(enq_log, 1, Len(Dequeued(deq_log))))
    /\ [][Len(deq_log') > Len(deq_log) =>
            Last(deq_log') =
               IF Len(Dequeued(deq_log)) = Len(enq_log) THEN NoEvent
               ELSE enq_log[Len(Dequeued(deq_log)) + 1]]_vars

C9_Witness ==
    /\ Len(Dequeued(deq_log)) >= 2
    /\ Len(Dequeued(deq_log)) < Len(deq_log)
    /\ enq_log[1] # enq_log[2]

C10_Step(p) ==
    LET q  == event_queue[p]
        q2 == event_queue'[p]
        read == Len(wire'[p]) < Len(wire[p])
    IN  \* at most one event leaves the queue, and only when a call starts
        /\ \/ IsSuffix(q, q2)
           \/ pc[p] = "ready" /\ q # <<>> /\ IsSuffix(Front(q), q2)
        \* at most one message is read, only when a call returns and only
        \* with a connection; its event is enqueued, not dispatched
        /\ read =>
              /\ wire'[p] = Tail(wire[p])
              /\ pc'[p] = "ready"
              /\ tcp_connection'[p] = "Some"
              /\ q2 # <<>>
              /\ q2[1].tag = MessageEventTag(Head(wire[p]))
              /\ q2[1].msg = Head(wire[p])
        \* with an empty queue nothing is dispatched
        /\ (Called(p) /\ q = <<>>) =>
              /\ state'[p] = state[p]
              /\ adj_rib_out'[p] = adj_rib_out[p]
              /\ tcp_connection'[p] = tcp_connection[p]
              /\ sent'[p] = sent[p]
              /\ pc'[p] = "ready"
              /\ Len(q2) = IF read THEN 1 ELSE 0

\* C10: a next() call dispatches at most one event and then reads at most
\* one inbound message; with an empty queue nothing is dispatched, and with
\* no connection (at the time of the read) nothing is read.
C10_OneEventOneMessage == [][\A p \in Peers : C10_Step(p)]_vars

\* The second next() call of a peer has dispatched TcpConnectionConfirmed
\* and the remote Open has been read and queued.
C10_Witness ==
    \E p \in Peers :
        /\ nextSinceStart[p] = 2
        /\ state[p] = OpenSent
        /\ Len(event_queue[p]) = 1
        /\ event_queue[p][1].tag = "BgpOpen"
        /\ wire[p] = <<>>

MessageEventTags == {"BgpOpen", "KeepAliveMsg", "UpdateMsg"}

\* The events of q that stand for received messages, in queue order.
MessageEvents(q) == SelectSeq(q, LAMBDA e : e.tag \in MessageEventTags)

\* The event that stands for message m.
EventOf(m) ==
    CASE m.type = "Open"      -> BgpOpen(m)
      [] m.type = "Keepalive" -> KeepAliveMsg(m)
      [] m.type = "Update"    -> UpdateMsg(m)

\* The queue of peer p once the dequeue of this step (if any) is done.
AfterDequeue(p) ==
    IF pc[p] = "ready" /\ event_queue[p] # <<>> /\ Called(p)
    THEN Front(event_queue[p])
    ELSE event_queue[p]

C11_Step(p) ==
    LET read == Len(wire'[p]) < Len(wire[p]) IN
    /\ read =>
          \* the call returns with the event of the message as the newest
          \* event of the queue: it has been enqueued and not dispatched
          /\ pc'[p] = "ready"
          /\ event_queue'[p] # <<>>
          /\ event_queue'[p][1] = EventOf(Head(wire[p]))
          \* exactly one message event has been added, behind every message
          \* event that was waiting
          /\ MessageEvents(event_queue'[p])
                = <<EventOf(Head(wire[p]))>> \o MessageEvents(AfterDequeue(p))
          \* what this call dispatched was in the queue before the read
          /\ pc[p] = "ready" =>
                Len(event_queue'[p]) >= 1 + Len(AfterDequeue(p))
    /\ ~read =>
          MessageEvents(event_queue'[p]) = MessageEvents(AfterDequeue(p))

\* C11: a message read in a next() call becomes exactly one event (Open ->
\* BgpOpen, Keepalive -> KeepAliveMsg, Update -> UpdateMsg) that the call
\* enqueues as the newest event and does not dispatch: when the call returns
\* the event is still queued, so only a later next() call dispatches it.
C11_ReadIsEnqueuedNotDispatched == [][\A p \in Peers : C11_Step(p)]_vars

\* An Update was read while another event was handled and is still queued.
C11_Witness ==
    \E p \in Peers :
        /\ pc[p] = "ready"
        /\ Len(event_queue[p]) >= 2
        /\ event_queue[p][1].tag = "UpdateMsg"
        /\ state[p] = Established

\* The peers that hold a MutexGuard of the Loc-RIB.
Holders == {p \in Peers : pc[p] \in {"locked", "locked_lrc"}}

\* Peer p is inside Connection::connect or Connection::get_message.
InNetworkOperation(p) == pc[p] \in {"accept", "unlocked", "unlocked_lrc"}

\* Peer p connects, writes to its socket or reads from it in this step.
NetworkStep(p) ==
    \/ tcp_connection'[p] # tcp_connection[p]
    \/ sent'[p] # sent[p]
    \/ Len(wire'[p]) < Len(wire[p])

\* C12: at most one peer holds the Loc-RIB mutex at a time, and no peer holds
\* it while it is inside a network operation: the lock taken for an
\* Established or LocRibChanged event is released before that next() call
\* reads from or writes to the socket.
C12_LockNotHeldDuringIo ==
    /\ [](/\ Cardinality(Holders) <= 1
          /\ Holders = {lock_owner} \ {NoPeer}
          /\ \A p \in Peers : InNetworkOperation(p) => lock_owner # p)
    /\ [][\A p \in Peers :
             NetworkStep(p) => (lock_owner # p /\ lock_owner' # p)]_vars

\* One peer is about to read from its socket after its install while the
\* other peer holds the mutex.
C12_Witness ==
    \E p \in Peers :
        /\ pc[p] \in {"unlocked", "unlocked_lrc"}
        /\ wire[p] # <<>>
        /\ lock_owner = Remote(p)

\* Peer p's next() call dispatches ManualStart in Idle and its TCP connection
\* cannot be made: p is Active and the remote peer is not listening.
ConnectFails(p) ==
    /\ Called(p)
    /\ state[p] = Idle
    /\ event_queue[p] # <<>>
    /\ Last(event_queue[p]) = ManualStart
    /\ Config[p].mode = "Active"
    /\ ~Listening(Remote(p))

C13_Step(p) ==
    /\ ConnectFails(p) =>
          /\ pc'[p] = "dead"
          /\ state'[p] = Idle
          /\ tcp_connection'[p] = "None"
          /\ event_queue'[p] = Front(event_queue[p])
          /\ sent'[p] = sent[p]
    /\ pc[p] = "dead" =>
          /\ pc'[p] = "dead"
          /\ state'[p] = state[p]
          /\ event_queue'[p] = event_queue[p]
          /\ tcp_connection'[p] = tcp_connection[p]
          /\ adj_rib_out'[p] = adj_rib_out[p]
          /\ sent'[p] = sent[p]
          /\ wire'[Remote(p)] = wire[Remote(p)]
          /\ nextSinceStart'[p] = nextSinceStart[p]

\* C13: a failure to establish TCP while handling ManualStart in Idle ends
\* the peer task: the peer stays Idle without a connection, never enqueues
\* TcpConnectionConfirmed, sends no message and takes no further step; an
\* Active peer that connects before the Passive peer listens fails this way.
C13_ConnectFailureIsFatal ==
    /\ [](\A p \in Peers :
            pc[p] = "dead" =>
                /\ state[p] = Idle
                /\ tcp_connection[p] = "None"
                /\ sent[p] = <<>>
                /\ wire[Remote(p)] = <<>>
                /\ \A i \in 1..Len(event_queue[p]) :
                      event_queue[p][i] # TcpConnectionConfirmed)
    /\ [][\A p \in Peers : C13_Step(p)]_vars

\* The Active peer has failed; the Passive peer listens afterwards and waits.
C13_Witness ==
    \E p \in Peers :
        /\ pc[p] = "dead"
        /\ state[p] = Idle
        /\ pc[Remote(p)] = "accept"

CeilDiv8(l) == (l + 7) \div 8

\* C14: for every prefix length l in 0..32 the encoded Ipv4Network is the
\* length byte l followed by the first ceil(l/8) octets of the network
\* address, and bytes_len() returns that encoded length 1 + ceil(l/8) without
\* panicking; a /0 prefix has byte length 1.
C14_PrefixEncoding ==
    codec_in.kind = "Ipv4Network" =>
        /\ codec_out.op = "BytesMut::from" =>
              /\ ~codec_out.ret.panicked
              /\ codec_out.ret.value =
                    <<codec_in.prefix>>
                       \o SubSeq(NetworkOctets(codec_in), 1,
                                 CeilDiv8(codec_in.prefix))
        /\ codec_out.op = "bytes_len" =>
              /\ ~codec_out.ret.panicked
              /\ codec_out.ret.value = 1 + CeilDiv8(codec_in.prefix)
              /\ codec_out.ret.value = Len(Ipv4NetworkBytes(codec_in).value)

\* C15: the message KeepaliveMessage::new builds encodes to the 19 header
\* bytes FF x16, 00 13, 04; decoding those bytes gives back an equal
\* Keepalive; decoding as a Keepalive a header whose type is not Keepalive
\* fails, and decoding as a Message a buffer of fewer than 19 bytes fails.
C15_KeepaliveCodec ==
    /\ (codec_in.kind = "KeepaliveMessage" /\ codec_out.op = "BytesMut::from") =>
          /\ codec_out.ret = Marker \o <<0, 19, 4>>
          /\ Len(codec_out.ret) = 19
          /\ KeepaliveTryFrom(codec_out.ret) = Ok(KeepaliveMessageNew)
          /\ MessageTryFrom(codec_out.ret)
                = Ok([type |-> "Keepalive", keepalive |-> KeepaliveMessageNew])
    /\ codec_out.op = "KeepaliveMessage::try_from" =>
          /\ (Len(codec_in.bytes) = 19 /\ codec_in.bytes[19] # 4) =>
                ~codec_out.ret.ok
          /\ codec_out.ret.ok =>
                /\ codec_out.ret.value.header.type_ = "Keepalive"
                /\ KeepaliveBytes(codec_out.ret.value) = codec_in.bytes
    /\ codec_out.op = "Message::try_from" =>
          (Len(codec_in.bytes) < 19 => ~codec_out.ret.ok)

\* The 19 bytes of an Open header have been refused as a Keepalive.
C15_Witness ==
    /\ codec_out.op = "KeepaliveMessage::try_from"
    /\ codec_in.bytes = Marker \o <<0, 19, 1>>
    /\ ~codec_out.ret.ok

\* The number of attributes of an entry that carry the given tag.
CountTag(entry, tag) ==
    Cardinality({i \in 1..Len(entry.path_attributes) :
                    entry.path_attributes[i].tag = tag})

OneOfEach(entry) ==
    /\ Len(entry.path_attributes) = 3
    /\ CountTag(entry, "Origin") = 1
    /\ CountTag(entry, "AsPath") = 1
    /\ CountTag(entry, "NextHop") = 1

\* C16: in every reachable state every RibEntry of the Loc-RIB and of every
\* peer's Adj-RIB-Out holds exactly one Origin, exactly one AsPath and
\* exactly one NextHop attribute.
C16_OneOfEachAttribute ==
    /\ \A i \in 1..Len(loc_rib) : OneOfEach(loc_rib[i])
    /\ \A p \in Peers :
          \A i \in 1..Len(adj_rib_out[p]) : OneOfEach(adj_rib_out[p][i])

\* Both peers have installed a Loc-RIB of two routes, one of them twice.
C16_Witness ==
    /\ Len(loc_rib) = 2
    /\ \A p \in Peers : Len(adj_rib_out[p]) >= 2
    /\ \E p \in Peers : Len(adj_rib_out[p]) = 4

\* A field of peer p (state, event queue, connection, Adj-RIB-Out) or its
\* position changes in this step.
Changed(p) ==
    \/ state'[p] # state[p]
    \/ event_queue'[p] # event_queue[p]
    \/ tcp_connection'[p] # tcp_connection[p]
    \/ adj_rib_out'[p] # adj_rib_out[p]
    \/ pc'[p] # pc[p]

C17_Step ==
    \* a step changes the fields of at most one peer
    /\ \A p, q \in Peers : (Changed(p) /\ Changed(q)) => p = q
    \* no step modifies the Loc-RIB
    /\ loc_rib' = loc_rib
    \* an Adj-RIB-Out changes only by its peer's install, which handles
    \* Established or LocRibChanged in state Established under the lock
    /\ \A p \in Peers :
          adj_rib_out'[p] # adj_rib_out[p] =>
              /\ state[p] = Established
              /\ state'[p] = Established
              /\ pc[p] \in {"locked", "locked_lrc"}
              /\ lock_owner = p
              /\ DispatchedTag(p) \in {"Established", "LocRibChanged"}
              /\ adj_rib_out'[p] =
                    install_from_loc_rib(adj_rib_out[p], loc_rib, Config[p])

\* C17: a step of one peer task changes only that peer's own state, event
\* queue, connection and Adj-RIB-Out; it leaves the other peers' fields
\* unchanged and never modifies the shared Loc-RIB; a peer's Adj-RIB-Out
\* changes only when that peer handles Established or LocRibChanged in
\* state Established.
C17_PeerOwnsItsFields == [][C17_Step]_vars

\* One peer has installed while the other, Established too, has not yet.
C17_Witness ==
    \E p \in Peers :
        /\ adj_rib_out[p] # <<>>
        /\ adj_rib_out[Remote(p)] = <<>>
        /\ state[Remote(p)] = Established

\* What peer p has sent, in order: its Open, then one Keepalive, then Updates.
SentInOrder(p) ==
    \A i \in 1..Len(sent[p]) :
        CASE i = 1 -> sent[p][i] = new_open(Config[p].local_as,
                                            Config[p].local_ip)
          [] i = 2 -> sent[p][i] = new_keepalive
          [] OTHER -> sent[p][i].type = "Update"

C18_Step(p) ==
    \A i \in 1..Len(NewlySent(p)) :
        CASE NewlySent(p)[i].type = "Open" ->
                 /\ state[p] = Connect /\ state'[p] = OpenSent
                 /\ Len(NewlySent(p)) = 1
          [] NewlySent(p)[i].type = "Keepalive" ->
                 /\ state[p] = OpenSent /\ state'[p] = OpenConfirm
                 /\ Len(NewlySent(p)) = 1
          [] NewlySent(p)[i].type = "Update" ->
                 state[p] = Established /\ state'[p] = Established

\* C18: a peer sends its messages in the order Open, Keepalive, Updates:
\* one Open, sent on Connect->OpenSent, and one Keepalive, sent on
\* OpenSent->OpenConfirm, are ever sent, the Keepalive never before the
\* peer's own Open, and no Update is sent in a state other than Established.
C18_SendOrder ==
    /\ [](\A p \in Peers :
            /\ SentInOrder(p)
            /\ state[p] \in {Idle, Connect} => sent[p] = <<>>
            /\ state[p] = OpenSent => Len(sent[p]) = 1
            /\ state[p] = OpenConfirm => Len(sent[p]) = 2
            /\ state[p] = Established => Len(sent[p]) >= 2)
    /\ [][\A p \in Peers : C18_Step(p)]_vars

\* A peer has sent its Open, its Keepalive and Updates after two installs,
\* with a message of a foreign speaker or a further start() in the run.
C18_Witness ==
    \E p \in Peers :
        /\ Len(sent[p]) >= 4
        /\ sent[p][Len(sent[p])].type = "Update"
        /\ EnvUsed > 0

C19_Step(p) ==
    (Called(p) /\ event_queue[p] # <<>>) =>
        /\ Last(event_queue[p]).tag = "BgpOpen" =>
              state[p] = OpenSent /\ state'[p] = OpenConfirm
        /\ Last(event_queue[p]).tag = "KeepAliveMsg" =>
              state[p] = OpenConfirm /\ state'[p] = Established

\* C19: between two complementary peers no handshake event is lost: in every
\* interleaving a BgpOpen event is dequeued only in OpenSent and a
\* KeepAliveMsg event only in OpenConfirm, so neither is ignored, also when
\* the remote Open or Keepalive was read while the peer was still in Connect
\* or OpenSent.
C19_HandshakeEventsNotLost ==
    /\ [](\A p \in Peers :
            \A i \in 1..Len(event_queue[p]) :
                /\ event_queue[p][i].tag = "BgpOpen" =>
                      state[p] \in {Connect, OpenSent}
                /\ event_queue[p][i].tag = "KeepAliveMsg" =>
                      state[p] \in {Connect, OpenSent, OpenConfirm})
    /\ [][\A p \in Peers : C19_Step(p)]_vars

\* The remote Open was read when the connection was made: it is queued
\* behind TcpConnectionConfirmed while the peer is still in Connect.
C19_Witness ==
    \E p \in Peers :
        /\ state[p] = Connect
        /\ Len(event_queue[p]) >= 2
        /\ event_queue[p][1].tag = "BgpOpen"
        /\ Last(event_queue[p]) = TcpConnectionConfirmed

\* C20: in every reachable state a peer has its connection exactly when its
\* state is not Idle, so the unwrap() of the connection before sending an
\* Open, a Keepalive or an Update never fails: a peer task ends only by the
\* failure to connect in Idle.
C20_ConnectionUnlessIdle ==
    /\ [](\A p \in Peers : state[p] = Idle <=> tcp_connection[p] = "None")
    /\ [][\A p \in Peers :
             /\ NewlySent(p) # <<>> => tcp_connection[p] = "Some"
             /\ (pc'[p] = "dead" /\ pc[p] # "dead") =>
                   /\ state[p] = Idle
                   /\ Last(event_queue[p]) = ManualStart]_vars

\* An Established peer has sent Updates over its connection.
C20_Witness ==
    \E p \in Peers :
        /\ state[p] = Established
        /\ tcp_connection[p] = "Some"
        /\ Len(sent[p]) > 2
        /\ injCount[p] > 0

WaitsForLock(p) == pc[p] \in {"lock", "lock_lrc"}
HoldsLock(p)    == pc[p] \in {"locked", "locked_lrc"}
PastInstall(p)  == pc[p] \in {"unlocked", "unlocked_lrc"}

C21_Step(p) ==
    \* the wait starts by dispatching Established or LocRibChanged in
    \* state Established
    /\ (WaitsForLock(p)' /\ ~WaitsForLock(p)) =>
          /\ state[p] = Established
          /\ Last(event_queue[p]).tag \in {"Established", "LocRibChanged"}
    \* a waiting peer's next step takes the lock, the holder's next step
    \* rebuilds, enqueues AdjRibOutChanged and releases
    /\ (WaitsForLock(p) /\ pc'[p] # pc[p]) => (HoldsLock(p)' /\ lock_owner' = p)
    /\ (HoldsLock(p) /\ pc'[p] # pc[p]) =>
          /\ PastInstall(p)'
          /\ lock_owner' = NoPeer
          /\ event_queue'[p] = enqueue(event_queue[p], AdjRibOutChanged)
          /\ adj_rib_out'[p] =
                install_from_loc_rib(adj_rib_out[p], loc_rib, Config[p])

\* C21: with the peer tasks sharing one Loc-RIB mutex and stepped fairly the
\* lock never deadlocks: the mutex is held only by a peer that is installing,
\* and every peer that dispatches Established or LocRibChanged in state
\* Established eventually acquires the lock, rebuilds its Adj-RIB-Out,
\* releases the lock within the same dispatch and enqueues AdjRibOutChanged,
\* whatever the other peers do.
C21_LockNeverDeadlocks ==
    /\ [](\A p \in Peers : lock_owner = p => HoldsLock(p))
    /\ [][\A p \in Peers : C21_Step(p)]_vars
    /\ \A p \in Peers : WaitsForLock(p) ~> (PastInstall(p) /\ lock_owner # p)

\* A peer waits for the mutex while the other peer holds it.
C21_Witness ==
    \E p \in Peers :
        /\ WaitsForLock(p)
        /\ lock_owner = Remote(p)
        /\ HoldsLock(Remote(p))

====
